---- MODULE Spec2Model ----
(***************************************************************************)
(* Two subsystems of the portfolio repository.                             *)
(*                                                                         *)
(*  - The Document Intelligence question-answering path (DocumentStore,    *)
(*    vector store, QAEngine).  Its Python sources are described by the    *)
(*    review documents of the repository (document-intelligence/README.md  *)
(*    "Key Findings & Critique" and the OpenCode review); the behaviour    *)
(*    those documents state is modelled as stated, the rest follows the    *)
(*    design specification.  Specification: Spec.                          *)
(*                                                                         *)
(*    SpecStore is the store under a running clock, SpecChunker the text   *)
(*    chunker applied to texts of characters.                              *)
(*                                                                         *)
(*  - The task manager's Convex backend (users, projects, tasks).          *)
(*    Specifications: SpecTM (creation and cascading removal),             *)
(*    SpecProjects (renaming and archiving), SpecDash (the data the        *)
(*    dashboard queries read), SpecMutations (the mutations a client can   *)
(*    call), SpecAll (those and the WorkOS user events), SpecEdit (the     *)
(*    edit dialog's tasks.update), SpecBoard (the Kanban board's drag and  *)
(*    drop in front of the tables).  Queries write nothing: they are       *)
(*    operators over the tables.                                           *)
(***************************************************************************)
EXTENDS Integers, Sequences, FiniteSets, TLC

(* ------------------------------ bounds -------------------------------- *)

\* documents ingested in one behaviour (identifiers are never reused)
MaxDocs == 2
\* passages a document's text is split into, at most
MaxChunks == 2
\* wall-clock ticks
MaxTime == 2
\* qa.max_context_chunks of config/settings.yaml (ships as 5), scaled down
max_context_chunks == 2
\* qa.max_conversation_history of config/settings.yaml (ships as 10), scaled down
max_conversation_history == 1
\* max_documents_per_session of the DocumentStore settings, scaled down
max_documents_per_session == 1

\* rows of the Convex tables created in one behaviour (ids are never reused)
MaxUsers == 2
MaxProjects == 2
MaxTasks == 2
\* rows held by the three tables together, where a specification caps them
MaxRows == 4

\* characters of a text handed to the chunker, at most
MaxTextLen == 5
\* largest targetSize handed to the chunker
MaxTargetSize == 2

DocIds == 1..MaxDocs
\* two questions, each answered best by a different passage
Questions == {1, 2}
\* time-to-live given to a document at ingestion: it can run out within the clock's range
SessionTtl == MaxTime - 1
\* turns held by the store at one time: one more than the configured window
MaxTurns == max_conversation_history + 1

VARIABLES
    now,          \* wall clock
    nextDocId,    \* next document identifier to hand out
    documents,    \* DocumentStore._documents: doc_id -> ProcessedDocument
    collections,  \* vector store: entries tagged with their document's collection
    last,         \* what the last caller-facing call returned
    users,        \* Convex table users
    projects,     \* Convex table projects
    tasks,        \* Convex table tasks
    nextId,       \* next Convex document id, per table
    lastTM        \* outcome of the last Convex function call

diVars == <<now, nextDocId, documents, collections, last>>
tmVars == <<users, projects, tasks, nextId, lastTM>>
vars == <<now, nextDocId, documents, collections, last,
          users, projects, tasks, nextId, lastTM>>

(* ===================== Document Intelligence ========================== *)

(* ---- text_processor.py: chunking ------------------------------------- *)

\* A text is modelled by the number of passages it holds; the chunker returns
\* their indices in document order (an empty text gives no chunk).
\* (mutant) a text without content still gives one (blank) chunk
chunk_text_keeping_blank(text) == [i \in 1..(IF text = 0 THEN 1 ELSE text) |-> i - 1]

chunk_text(text) == [i \in 1..text |-> i - 1]

\* Character level.  A text is a sequence over a letter, a sentence end and a
\* blank; chunk() is the contract chunk(text, targetSize, overlap).
Alphabet == {"a", ".", " "}
Texts == UNION {[1..n -> Alphabet] : n \in 0..MaxTextLen}
ChunkerArgs == {<<size, overlap>> \in (1..MaxTargetSize) \X (0..MaxTargetSize) :
                    overlap < size}

\* whitespace-collapsed text: no leading, trailing or repeated blank
RECURSIVE collapse_from(_, _)
collapse_from(text, i) ==
    IF i > Len(text) THEN <<>>
    ELSE LET kept == \/ text[i] # " "
                     \/ /\ i > 1
                        /\ text[i - 1] # " "
                        /\ \E j \in (i + 1)..Len(text) : text[j] # " "
         IN (IF kept THEN <<text[i]>> ELSE <<>>) \o collapse_from(text, i + 1)

normalize(text) == collapse_from(text, 1)

\* where the chunk whose new content starts at `body` ends: the whole rest
\* when it fits; else the last sentence end within targetSize, else the last
\* blank within targetSize, else the first boundary within 2 x targetSize,
\* else a hard split at targetSize
chunk_end(text, body, size) ==
    LET hi == body + size - 1
        far == IF body + 2 * size - 1 < Len(text) THEN body + 2 * size - 1 ELSE Len(text)
        ends == {i \in body..hi : text[i] = "."}
        blanks == {i \in body..hi : text[i] = " "}
        later == {i \in (hi + 1)..far : text[i] \in {".", " "}}
        max(S) == CHOOSE i \in S : \A j \in S : j <= i
        min(S) == CHOOSE i \in S : \A j \in S : i <= j
    IN IF hi >= Len(text) THEN Len(text)
       ELSE IF ends # {} THEN max(ends)
       ELSE IF blanks # {} THEN max(blanks)
       ELSE IF later # {} THEN min(later)
       ELSE hi

\* each chunk is stripped of the blank it ends with
RECURSIVE chunks_from_stripped(_, _, _, _, _)
chunks_from_stripped(text, body, index, size, overlap) ==
    IF body > Len(text) THEN <<>>
    ELSE LET e == chunk_end(text, body, size)
             last_kept == IF text[e] = " " /\ e > body THEN e - 1 ELSE e
             start == IF index = 0 \/ body - overlap < 1 THEN 1 ELSE body - overlap
         IN <<[chunkIndex |-> index, start |-> start, end |-> e,
               text |-> SubSeq(text, start, last_kept)]>>
                \o chunks_from_stripped(text, e + 1, index + 1, size, overlap)

\* the chunks of text from position `body` on; each chunk but the first
\* starts `overlap` characters before its new content
RECURSIVE chunks_from(_, _, _, _, _)
chunks_from(text, body, index, size, overlap) ==
    IF body > Len(text) THEN <<>>
    ELSE LET e == chunk_end(text, body, size)
             start == IF index = 0 \/ body - overlap < 1 THEN 1 ELSE body - overlap
         IN <<[chunkIndex |-> index, start |-> start, end |-> e,
               text |-> SubSeq(text, start, e)]>>
                \o chunks_from(text, e + 1, index + 1, size, overlap)

\* (mutant) the stripping chunker
chunk_stripped(text, targetSize, overlap) ==
    chunks_from_stripped(text, 1, 0, targetSize, overlap)

chunk(text, targetSize, overlap) == chunks_from(text, 1, 0, targetSize, overlap)

\* the chunk texts put end to end, each without the head it shares with its
\* predecessor
RECURSIVE reconstruct(_)
reconstruct(chunks) ==
    IF chunks = <<>> THEN <<>>
    ELSE LET n == Len(chunks)
             shared == IF n = 1 THEN 0 ELSE chunks[n - 1].end - chunks[n].start + 1
         IN reconstruct(SubSeq(chunks, 1, n - 1))
                \o SubSeq(chunks[n].text, shared + 1, Len(chunks[n].text))

\* provenance of a chunk: the page it came from
source_ref(chunk_index) == chunk_index + 1

(* ---- vector_store.py: embeddings and document-scoped collections ------ *)

\* self._dimension = 384  # MiniLM dimension
dimension == 384
\* the largest batch the embedding API is to be sent (the review proposes 100),
\* scaled down
max_batch_size == 1

\* the requests posted for the texts of a document: "input": texts, all of
\* them in one request
embed_requests(texts) == IF texts = <<>> THEN <<>> ELSE <<texts>>

\* the vectors of one request, modelled by their length: the API's vectors,
\* or zero vectors when the API is not to be had (apiOk is how the request
\* ended, retries included)
embed_openrouter(batch, apiOk) ==
    [i \in 1..Len(batch) |->
        [chunk_index |-> batch[i], fallback |-> ~apiOk, dim |-> dimension]]

RECURSIVE concat(_)
concat(seqs) == IF seqs = <<>> THEN <<>> ELSE Head(seqs) \o concat(Tail(seqs))

\* (mutant) zero vectors of the local model's length next to the API's vectors
embed_batch_two_lengths(chunks, apiOk) ==
    [i \in 1..Len(chunks) |->
        [chunk_index |-> chunks[i], fallback |-> ~apiOk,
         dim |-> IF apiOk THEN 1536 ELSE dimension]]

\* the results of the requests, in the order of the requests
embed_batch(chunks, apiOk) ==
    concat([r \in 1..Len(embed_requests(chunks)) |->
                embed_openrouter(embed_requests(chunks)[r], apiOk)])

\* add the embedded chunks to the document's collection
add_chunks(colls, doc_id, embedded) ==
    colls \cup {[doc_id |-> doc_id,
                 chunk_index |-> embedded[i].chunk_index,
                 fallback |-> embedded[i].fallback,
                 dim |-> embedded[i].dim] : i \in 1..Len(embedded)}

delete_collection(colls, doc_id) == {e \in colls : e.doc_id # doc_id}

\* similarity of a question and a chunk: passage q-1 is the one that answers
\* question q; zero vectors are equally (dis)similar to everything
similarity(question, e) ==
    IF e.fallback THEN 0
    ELSE IF e.chunk_index + 1 = question THEN 2 ELSE 1

\* the entry a descending-similarity ranking puts first (ties: document order)
best_of(question, es) ==
    CHOOSE e \in es : \A f \in es :
        \/ similarity(question, e) > similarity(question, f)
        \/ /\ similarity(question, e) = similarity(question, f)
           /\ e.chunk_index <= f.chunk_index

RECURSIVE ranked(_, _, _)
ranked(question, es, k) ==
    IF k = 0 \/ es = {} THEN <<>>
    ELSE LET b == best_of(question, es)
         IN <<b>> \o ranked(question, es \ {b}, k - 1)

\* (mutant) one collection shared by every document
collection_shared(colls, doc_id) == colls

\* the collection a search on doc_id reads
collection_of(colls, doc_id) == {e \in colls : e.doc_id = doc_id}

\* top-k of the document's collection; a failing vector store gives nothing
search(colls, doc_id, question, k, storeOk) ==
    IF ~storeOk THEN <<>>
    ELSE ranked(question, collection_of(colls, doc_id), k)

(* ---- document_store.py: the in-memory session store ------------------ *)

\* the record put into the store when an upload is accepted
new_document(text, t) ==
    [status |-> "processing", text |-> text, chunks |-> <<>>,
     created_at |-> t, expires_at |-> t + SessionTtl, qa_history |-> <<>>]

put(docs, doc_id, doc) ==
    [d \in DOMAIN docs \cup {doc_id} |-> IF d = doc_id THEN doc ELSE docs[d]]

\* get looks the id up in the dict, and nothing else
get(docs, doc_id, t) ==
    IF doc_id \in DOMAIN docs THEN [found |-> TRUE, doc |-> docs[doc_id]]
    ELSE [found |-> FALSE, doc |-> new_document(0, 0)]

\* (mutant) the chunks are dropped and the emptied document stays behind
delete_chunks_only(docs, doc_id) == [docs EXCEPT ![doc_id].chunks = <<>>]

\* delete drops the whole ProcessedDocument (its chunks go with it)
delete(docs, doc_id) == [d \in DOMAIN docs \ {doc_id} |-> docs[d]]

\* TTL-aware eviction: it is what the cleanup task would run, and
\* start_cleanup_task() is never called, so no action below uses it
cleanup_expired(docs, t) ==
    [d \in {x \in DOMAIN docs : t <= docs[x].expires_at} |-> docs[d]]

(* ---- qa_engine.py: QAEngine.answer ------------------------------------ *)

NoAnswer == [type |-> "no_answer", doc_id |-> 0, chunk_index |-> 0]
generated_text(doc_id) == [type |-> "generated", doc_id |-> doc_id, chunk_index |-> 0]
chunk_text_of(doc_id, chunk_index) ==
    [type |-> "chunk", doc_id |-> doc_id, chunk_index |-> chunk_index]

\* sources come from the chunks handed to the prompt, in their order
extract_sources_from_chunks(context_chunks) ==
    [i \in 1..Len(context_chunks) |-> source_ref(context_chunks[i].chunk_index)]

\* "I don't have any document loaded..."
no_context_response ==
    [status |-> "ok", kind |-> "no_context", answer |-> NoAnswer,
     sources |-> <<>>, used_fallback |-> FALSE]

\* (mutant) the excerpt alternates with the number of turns already held
fallback_response_by_turn(doc_id, context_chunks) ==
    [status |-> "ok", kind |-> "fallback",
     answer |-> chunk_text_of(doc_id,
                    context_chunks[IF Len(documents[doc_id].qa_history) % 2 = 0
                                   THEN 1 ELSE Len(context_chunks)].chunk_index),
     sources |-> extract_sources_from_chunks(context_chunks),
     used_fallback |-> TRUE]

\* the extractive answer given when the LLM call fails: the best chunk, verbatim
fallback_response(doc_id, context_chunks) ==
    [status |-> "ok", kind |-> "fallback",
     answer |-> chunk_text_of(doc_id, context_chunks[1].chunk_index),
     sources |-> extract_sources_from_chunks(context_chunks),
     used_fallback |-> TRUE]

\* (mutant) the sources are the citation read out of the generated text
llm_response_citing(doc_id, context_chunks) ==
    [status |-> "ok", kind |-> "answered", answer |-> generated_text(doc_id),
     sources |-> <<source_ref(generated_text(doc_id).chunk_index)>>,
     used_fallback |-> FALSE]

llm_response(doc_id, context_chunks) ==
    [status |-> "ok", kind |-> "answered", answer |-> generated_text(doc_id),
     sources |-> extract_sources_from_chunks(context_chunks),
     used_fallback |-> FALSE]

\* (mutant) the LLM failure is not caught
answer_raising(colls, doc_id, question, storeOk, llmOk) ==
    LET context_chunks == search(colls, doc_id, question, max_context_chunks, storeOk)
    IN IF Len(context_chunks) = 0 THEN no_context_response
       ELSE IF llmOk THEN llm_response(doc_id, context_chunks)
       ELSE [status |-> "error", kind |-> "error", answer |-> NoAnswer,
             sources |-> <<>>, used_fallback |-> FALSE]

\* (mutant) the LLM failure ends in the no-context answer
answer_without_fallback(colls, doc_id, question, storeOk, llmOk) ==
    LET context_chunks == search(colls, doc_id, question, max_context_chunks, storeOk)
    IN IF Len(context_chunks) = 0 \/ ~llmOk THEN no_context_response
       ELSE llm_response(doc_id, context_chunks)

\* answer() neither checks that doc_id is known nor searches the raw text:
\* no context from the vector store means _no_context_response() at once;
\* _fallback_response() is reached only when the LLM fails after retrieval
answer(colls, doc_id, question, storeOk, llmOk) ==
    LET context_chunks == search(colls, doc_id, question, max_context_chunks, storeOk)
    IN IF Len(context_chunks) = 0 THEN no_context_response
       ELSE IF llmOk THEN llm_response(doc_id, context_chunks)
       ELSE fallback_response(doc_id, context_chunks)

\* the states one call of answer() goes through, read off the branch it took:
\* no context ends the call at once, an LLM failure ends it after the prompt
\* was built and sent
composer_states(response) ==
    IF response.kind = "no_context" THEN <<"AwaitingRetrieval", "Fallback">>
    ELSE IF response.kind = "answered"
         THEN <<"AwaitingRetrieval", "Grounded", "Generating", "Answered">>
    ELSE <<"AwaitingRetrieval", "Grounded", "Generating", "Fallback">>

\* the turn is appended to the document's history; _max_history is read from
\* the configuration and never applied
append_turn(history, turn) == Append(history, turn)

next_turn(history) == IF history = <<>> THEN 1 ELSE history[Len(history)] + 1

\* (mutant) questions are served at once
always_ready(docs, doc_id) == TRUE

\* a question on a document still being processed waits for it
ready_for_questions(docs, doc_id) ==
    doc_id \in DOMAIN docs => docs[doc_id].status = "completed"

(* ---- app/main.py: the caller-facing operations ------------------------ *)

RECURSIVE turns_held(_, _)
turns_held(docs, ids) ==
    IF ids = {} THEN 0
    ELSE LET d == CHOOSE x \in ids : TRUE
         IN Len(docs[d].qa_history) + turns_held(docs, ids \ {d})

NoDocs == [d \in {} |-> 0]

InitDI ==
    /\ now = 0
    /\ nextDocId = 1
    /\ documents = NoDocs
    /\ collections = {}
    /\ last = [op |-> "none", doc_id |-> 0, status |-> "ok"]

\* POST /upload: the handler checks extension and size, stores the document
\* as "processing" and leaves the rest to the background task
Upload(valid, text) ==
    /\ nextDocId <= MaxDocs
    /\ IF valid
       THEN /\ documents' = put(documents, nextDocId, new_document(text, now))
            /\ nextDocId' = nextDocId + 1
            /\ last' = [op |-> "upload", doc_id |-> nextDocId, status |-> "ok"]
       ELSE /\ UNCHANGED <<documents, nextDocId>>
            /\ last' = [op |-> "upload", doc_id |-> 0, status |-> "input_error"]
    /\ UNCHANGED <<now, collections>>
    /\ UNCHANGED tmVars

\* process_document_async: chunking, embedding and indexing run to the end
\* without yielding the event loop
ProcessDocument(doc_id, apiOk) ==
    /\ doc_id \in DOMAIN documents
    /\ documents[doc_id].status = "processing"
    /\ LET chunks == chunk_text(documents[doc_id].text)
       IN /\ collections' = add_chunks(collections, doc_id, embed_batch(chunks, apiOk))
          /\ documents' = [documents EXCEPT ![doc_id].chunks = chunks,
                                            ![doc_id].status = "completed"]
    /\ UNCHANGED <<now, nextDocId, last>>
    /\ UNCHANGED tmVars

\* POST /qa/{doc_id}
Ask(doc_id, question, storeOk, llmOk) ==
    /\ ready_for_questions(documents, doc_id)
    /\ turns_held(documents, DOMAIN documents) < MaxTurns
    /\ LET known == doc_id \in DOMAIN documents
           response == answer(collections, doc_id, question, storeOk, llmOk)
           context_chunks == search(collections, doc_id, question,
                                    max_context_chunks, storeOk)
       IN /\ documents' =
                IF known
                THEN [documents EXCEPT ![doc_id].qa_history =
                        append_turn(@, next_turn(@))]
                ELSE documents
          /\ last' = [op |-> "ask", doc_id |-> doc_id, status |-> response.status,
                      question |-> question, response |-> response,
                      known |-> known,
                      nchunks |-> IF known THEN Len(documents[doc_id].chunks) ELSE 0,
                      llm_failed |-> ~llmOk /\ Len(context_chunks) > 0,
                      retrieved |-> context_chunks,
                      indexed |-> Cardinality(collection_of(collections, doc_id)),
                      text |-> IF known THEN documents[doc_id].text ELSE 0,
                      doc_status |-> IF known THEN documents[doc_id].status
                                     ELSE "unknown",
                      repeated |-> /\ last.op = "ask"
                                   /\ last.doc_id = doc_id
                                   /\ last.question = question
                                   /\ last.llm_failed
                                   /\ ~llmOk
                                   /\ Len(context_chunks) > 0]
    /\ UNCHANGED <<now, nextDocId, collections>>
    /\ UNCHANGED tmVars

\* GET /document/{doc_id}
Get(doc_id) ==
    /\ LET r == get(documents, doc_id, now)
       IN last' = [op |-> "get", doc_id |-> doc_id,
                   status |-> IF r.found THEN "ok" ELSE "not_found",
                   doc |-> r.doc,
                   expired |-> doc_id \in DOMAIN documents
                               /\ now > documents[doc_id].expires_at]
    /\ UNCHANGED <<now, nextDocId, documents, collections>>
    /\ UNCHANGED tmVars

\* DELETE /document/{doc_id}
Remove(doc_id) ==
    /\ IF doc_id \in DOMAIN documents
       THEN /\ documents' = delete(documents, doc_id)
            /\ collections' = delete_collection(collections, doc_id)
            /\ last' = [op |-> "remove", doc_id |-> doc_id, status |-> "ok"]
       ELSE /\ UNCHANGED <<documents, collections>>
            /\ last' = [op |-> "remove", doc_id |-> doc_id, status |-> "not_found"]
    /\ UNCHANGED <<now, nextDocId>>
    /\ UNCHANGED tmVars

Tick ==
    /\ now < MaxTime
    /\ now' = now + 1
    /\ UNCHANGED <<nextDocId, documents, collections, last>>
    /\ UNCHANGED tmVars

(* ---- the chunker on its own ------------------------------------------- *)

\* a call of the chunker about to be made
InitChunker ==
    /\ now = 0
    /\ nextDocId = 1
    /\ documents = NoDocs
    /\ collections = {}
    /\ \E text \in Texts, args \in ChunkerArgs :
           last = [op |-> "chunk.call", text |-> text,
                   targetSize |-> args[1], overlap |-> args[2]]

\* the text is normalized and split
ChunkText ==
    /\ last.op = "chunk.call"
    /\ last' = [op |-> "chunk", text |-> last.text, rawText |-> normalize(last.text),
                targetSize |-> last.targetSize, overlap |-> last.overlap,
                chunks |-> chunk(normalize(last.text), last.targetSize, last.overlap)]
    /\ UNCHANGED <<now, nextDocId, documents, collections>>
    /\ UNCHANGED tmVars

(* ========================= Task manager =============================== *)

\* WorkOS identities; NoAuth is a request without a session
AuthIds == {"alice", "bob"}
NoAuth == "none"
Callers == AuthIds \cup {NoAuth}
taskStatusValues == {"todo", "in_progress", "done"}

ProjectIds == 1..MaxProjects
TaskIds == 1..MaxTasks

\* an optional field that is not set
undefined == -1
\* an optional string argument that is not supplied
omitted == "omitted"
\* dueDate: v.optional(v.number()), in ticks of the clock; a day has DayLength ticks
DueDates == {undefined, 0, 1}
DayLength == 2
\* the instants at which a dashboard query reads the clock
Instants == 1..MaxTime
\* JavaScript truthiness of an optional number: unset and 0 are both falsy
truthy(x) == x # undefined /\ x # 0

\* ctx.db.query("users").withIndex("by_authId", ...).unique():
\* null without a row, the row when there is one, an error when there are more
unique_user(rows, authId) ==
    LET found == {u \in rows : u.authId = authId}
    IN IF found = {} THEN [kind |-> "null", id |-> 0]
       ELSE IF Cardinality(found) = 1
            THEN [kind |-> "row", id |-> (CHOOSE u \in found : TRUE).id]
            ELSE [kind |-> "error", id |-> 0]

\* ctx.db.get(id) on a table
db_get(rows, id) == {r \in rows : r.id = id}

\* withIndex("by_project", q => q.eq("projectId", projectId)).collect()
by_project(rows, projectId) == {t \in rows : t.projectId = projectId}

\* withIndex("by_project_status", ...).collect()
by_project_status(rows, projectId, status) ==
    {t \in rows : t.projectId = projectId /\ t.status = status}

\* existingTasks.reduce((max, task) => Math.max(max, task.position), -1)
RECURSIVE max_position(_)
max_position(rows) ==
    IF rows = {} THEN -1
    ELSE LET t == CHOOSE x \in rows : TRUE
             m == max_position(rows \ {t})
         IN IF t.position > m THEN t.position ELSE m

\* (mutant) the project goes and its tasks stay
remove_without_cascade(rows, projectId) == rows

\* the rows projects.remove deletes from tasks: every task of the project
remove_cascade(rows, projectId) == rows \ by_project(rows, projectId)

\* withIndex("by_user", q => q.eq("userId", userId)).collect()
by_user(rows, userId) == {r \in rows : r.userId = userId}

\* rows in index order: by_user orders a user's rows by _creationTime, and
\* ids are handed out in creation order
RECURSIVE in_index_order(_)
in_index_order(rows) ==
    IF rows = {} THEN <<>>
    ELSE LET first == CHOOSE r \in rows : \A o \in rows : r.id <= o.id
         IN <<first>> \o in_index_order(rows \ {first})

\* .order("desc"): the index order, reversed
order_desc(rows) ==
    LET asc == in_index_order(rows)
    IN [i \in 1..Len(asc) |-> asc[Len(asc) + 1 - i]]

\* .take(n)
take(rows, n) == SubSeq(rows, 1, IF n < Len(rows) THEN n ELSE Len(rows))

\* Array.prototype.sort((a, b) => (a.dueDate ?? 0) - (b.dueDate ?? 0)): stable
RECURSIVE sort_by_dueDate(_)
sort_by_dueDate(rows) ==
    IF rows = <<>> THEN <<>>
    ELSE LET key(r) == IF r.dueDate = undefined THEN 0 ELSE r.dueDate
             i == CHOOSE k \in 1..Len(rows) :
                      /\ \A j \in 1..Len(rows) : key(rows[k]) <= key(rows[j])
                      /\ \A j \in 1..(k - 1) : key(rows[j]) > key(rows[k])
         IN <<rows[i]>> \o sort_by_dueDate(
                [j \in 1..(Len(rows) - 1) |-> IF j < i THEN rows[j] ELSE rows[j + 1]])

\* what a query hands back: ok is FALSE when the handler throws
Returned(rows) == [ok |-> TRUE, rows |-> rows]
QueryError == [ok |-> FALSE, rows |-> <<>>]

\* args.limit ?? 5
recent_limit == 5

\* dashboard.getRecentTasks: by_user, order("desc"), take(limit)
getRecentTasks(usersT, tasksT, caller, limit) ==
    IF caller = NoAuth THEN Returned(<<>>)
    ELSE LET user == unique_user(usersT, caller)
         IN IF user.kind = "error" THEN QueryError
            ELSE IF user.kind = "null" THEN Returned(<<>>)
            ELSE Returned(take(order_desc(by_user(tasksT, user.id)),
                               IF limit = undefined THEN recent_limit ELSE limit))

\* dashboard.getOverdueTasks: by_user, filter, sort by dueDate
getOverdueTasks(usersT, tasksT, caller, t) ==
    IF caller = NoAuth THEN Returned(<<>>)
    ELSE LET user == unique_user(usersT, caller)
         IN IF user.kind = "error" THEN QueryError
            ELSE IF user.kind = "null" THEN Returned(<<>>)
            ELSE Returned(sort_by_dueDate(in_index_order(
                     {task \in by_user(tasksT, user.id) :
                          /\ truthy(task.dueDate)
                          /\ task.dueDate < t
                          /\ task.status # "done"})))

\* new Date(now.getFullYear(), now.getMonth(), now.getDate()).getTime()
startOfDay(t) == t - (t % DayLength)

\* dashboard.getDueToday: by_user, filter
getDueToday(usersT, tasksT, caller, t) ==
    IF caller = NoAuth THEN Returned(<<>>)
    ELSE LET user == unique_user(usersT, caller)
         IN IF user.kind = "error" THEN QueryError
            ELSE IF user.kind = "null" THEN Returned(<<>>)
            ELSE Returned(in_index_order(
                     {task \in by_user(tasksT, user.id) :
                          /\ truthy(task.dueDate)
                          /\ task.dueDate >= startOfDay(t)
                          /\ task.dueDate < startOfDay(t) + DayLength
                          /\ task.status # "done"}))

\* (mutant) archiving deletes the row
patch_project_deleting(rows, id, name, status) ==
    IF status = "archived" THEN rows \ db_get(rows, id)
    ELSE {IF r.id # id THEN r
          ELSE [r EXCEPT !.name = IF name = omitted THEN @ ELSE name] : r \in rows}

\* ctx.db.patch(projectId, updates), updates holding the supplied fields only
patch_project(rows, id, name, status) ==
    {IF r.id # id THEN r
     ELSE [r EXCEPT !.name = IF name = omitted THEN @ ELSE name,
                    !.status = IF status = omitted THEN @ ELSE status] : r \in rows}

\* the task counts projects.list and projects.getById add to a project
with_counts(tasksT, project) ==
    [project |-> project,
     taskCount |-> Cardinality(by_project(tasksT, project.id)),
     completedCount |-> Cardinality(by_project_status(tasksT, project.id, "done"))]

\* projects.list: the caller's projects, filtered by status when one is given
projects_list(usersT, projectsT, tasksT, caller, status) ==
    IF caller = NoAuth THEN Returned(<<>>)
    ELSE LET user == unique_user(usersT, caller)
         IN IF user.kind = "error" THEN QueryError
            ELSE IF user.kind = "null" THEN Returned(<<>>)
            ELSE LET filteredProjects ==
                         in_index_order({p \in by_user(projectsT, user.id) :
                                             status = omitted \/ p.status = status})
                 IN Returned([i \in 1..Len(filteredProjects) |->
                                  with_counts(tasksT, filteredProjects[i])])

\* projects.getById: <<>> stands for null
projects_getById(usersT, projectsT, tasksT, caller, projectId) ==
    IF caller = NoAuth \/ db_get(projectsT, projectId) = {} THEN Returned(<<>>)
    ELSE LET project == CHOOSE p \in db_get(projectsT, projectId) : TRUE
             user == unique_user(usersT, caller)
         IN IF user.kind = "error" THEN QueryError
            ELSE IF user.kind = "null" \/ project.userId # user.id THEN Returned(<<>>)
            ELSE Returned(<<with_counts(tasksT, project)>>)

\* tasks.sort((a, b) => a.position - b.position): stable
RECURSIVE sort_by_position(_)
sort_by_position(rows) ==
    IF rows = <<>> THEN <<>>
    ELSE LET i == CHOOSE k \in 1..Len(rows) :
                      /\ \A j \in 1..Len(rows) : rows[k].position <= rows[j].position
                      /\ \A j \in 1..(k - 1) : rows[j].position > rows[k].position
         IN <<rows[i]>> \o sort_by_position(
                [j \in 1..(Len(rows) - 1) |-> IF j < i THEN rows[j] ELSE rows[j + 1]])

\* tasks.listByProject: the project must be the caller's
tasks_listByProject(usersT, projectsT, tasksT, caller, projectId) ==
    IF caller = NoAuth THEN Returned(<<>>)
    ELSE LET user == unique_user(usersT, caller)
             project == db_get(projectsT, projectId)
         IN IF user.kind = "error" THEN QueryError
            ELSE IF user.kind = "null" THEN Returned(<<>>)
            ELSE IF project = {} \/ \E p \in project : p.userId # user.id
                 THEN Returned(<<>>)
            ELSE Returned(sort_by_position(in_index_order(by_project(tasksT, projectId))))

\* tasks.listByStatus: the caller must have a users row; the project is not looked up
tasks_listByStatus(usersT, tasksT, caller, projectId, status) ==
    IF caller = NoAuth THEN Returned(<<>>)
    ELSE LET user == unique_user(usersT, caller)
         IN IF user.kind = "error" THEN QueryError
            ELSE IF user.kind = "null" THEN Returned(<<>>)
            ELSE Returned(sort_by_position(in_index_order(
                     by_project_status(tasksT, projectId, status))))

\* tasks.getById: <<>> stands for null
tasks_getById(usersT, tasksT, caller, taskId) ==
    IF caller = NoAuth \/ db_get(tasksT, taskId) = {} THEN Returned(<<>>)
    ELSE LET task == CHOOSE t \in db_get(tasksT, taskId) : TRUE
             user == unique_user(usersT, caller)
         IN IF user.kind = "error" THEN QueryError
            ELSE IF user.kind = "null" \/ task.userId # user.id THEN Returned(<<>>)
            ELSE Returned(<<task>>)

\* users.getById: ctx.db.get(args.userId), whoever asks
users_getById(usersT, caller, userId) ==
    Returned(in_index_order(db_get(usersT, userId)))

InitTM ==
    /\ users = {}
    /\ projects = {}
    /\ tasks = {}
    /\ nextId = [users |-> 1, projects |-> 1, tasks |-> 1]
    /\ lastTM = [op |-> "none", ok |-> TRUE]

Throw(op) ==
    /\ lastTM' = [op |-> op, ok |-> FALSE]
    /\ UNCHANGED <<users, projects, tasks, nextId>>

\* throw new Error(message): the mutation is rolled back
ThrowError(op, message) ==
    /\ lastTM' = [op |-> op, ok |-> FALSE, error |-> message]
    /\ UNCHANGED <<users, projects, tasks, nextId>>

\* ctx.db.insert("users", {authId, email, name, avatarUrl})
insert_user(id, authId) == [id |-> id, authId |-> authId, name |-> "new"]

\* authKitEvent "user.created": the row is inserted as the event arrives
\* (auth.createUser, the internal mutation, is the same insert)
UserCreated(authId) ==
    /\ nextId.users <= MaxUsers
    /\ users' = users \cup {insert_user(nextId.users, authId)}
    /\ nextId' = [nextId EXCEPT !.users = @ + 1]
    /\ lastTM' = [op |-> "user.created", ok |-> TRUE]
    /\ UNCHANGED <<projects, tasks>>
    /\ UNCHANGED diVars

\* projects.create
ProjectsCreate(caller) ==
    /\ nextId.projects <= MaxProjects
    /\ LET user == unique_user(users, caller)
       IN IF caller = NoAuth \/ user.kind # "row"
          THEN Throw("projects.create")
          ELSE /\ projects' = projects \cup
                     {[id |-> nextId.projects, name |-> "new", status |-> "active",
                       userId |-> user.id]}
               /\ nextId' = [nextId EXCEPT !.projects = @ + 1]
               /\ lastTM' = [op |-> "projects.create", ok |-> TRUE]
               /\ UNCHANGED <<users, tasks>>
    /\ UNCHANGED diVars

\* tasks.create
TasksCreate(caller, projectId, status, dueDate) ==
    /\ nextId.tasks <= MaxTasks
    /\ LET user == unique_user(users, caller)
           project == db_get(projects, projectId)
       IN IF \/ caller = NoAuth
             \/ user.kind # "row"
             \/ project = {}
             \/ \E p \in project : p.userId # user.id
          THEN Throw("tasks.create")
          ELSE /\ tasks' = tasks \cup
                     {[id |-> nextId.tasks, title |-> "task", description |-> omitted,
                       status |-> status, priority |-> "medium", dueDate |-> dueDate,
                       position |-> max_position(
                           by_project_status(tasks, projectId, status)) + 1,
                       projectId |-> projectId, userId |-> user.id]}
               /\ nextId' = [nextId EXCEPT !.tasks = @ + 1]
               /\ lastTM' = [op |-> "tasks.create", ok |-> TRUE]
               /\ UNCHANGED <<users, projects>>
    /\ UNCHANGED diVars

\* projects.remove
ProjectsRemove(caller, projectId) ==
    /\ LET project == db_get(projects, projectId)
           user == IF caller = NoAuth \/ project = {}
                   THEN [kind |-> "null", id |-> 0]
                   ELSE unique_user(users, caller)
       IN IF \/ caller = NoAuth
             \/ project = {}
             \/ user.kind # "row"
             \/ \E p \in project : p.userId # user.id
          THEN Throw("projects.remove")
          ELSE /\ tasks' = remove_cascade(tasks, projectId)
               /\ projects' = projects \ project
               /\ lastTM' = [op |-> "projects.remove", ok |-> TRUE,
                             projectId |-> projectId,
                             removed |-> by_project(tasks, projectId),
                             kept |-> tasks \ by_project(tasks, projectId)]
               /\ UNCHANGED <<users, nextId>>
    /\ UNCHANGED diVars

\* projects.update: only the fields supplied are patched
ProjectsUpdate(caller, projectId, name, status) ==
    /\ LET project == db_get(projects, projectId)
           user == IF caller = NoAuth \/ project = {}
                   THEN [kind |-> "null", id |-> 0]
                   ELSE unique_user(users, caller)
       IN IF \/ caller = NoAuth
             \/ project = {}
             \/ user.kind # "row"
             \/ \E p \in project : p.userId # user.id
          THEN Throw("projects.update")
          ELSE /\ projects' = patch_project(projects, projectId, name, status)
               /\ lastTM' = [op |-> "projects.update", ok |-> TRUE,
                             projectId |-> projectId, caller |-> caller,
                             name |-> name, status |-> status,
                             before |-> CHOOSE p \in project : TRUE,
                             tasksBefore |-> tasks]
               /\ UNCHANGED <<users, tasks, nextId>>
    /\ UNCHANGED diVars

\* tasks.updateStatus, as the transaction on the tables
updateStatus(caller, taskId, status, position) ==
    /\ LET task == db_get(tasks, taskId)
           user == IF caller = NoAuth \/ task = {}
                   THEN [kind |-> "null", id |-> 0]
                   ELSE unique_user(users, caller)
       IN IF \/ caller = NoAuth
             \/ task = {}
             \/ user.kind # "row"
             \/ \E t \in task : t.userId # user.id
          THEN Throw("tasks.updateStatus")
          ELSE /\ tasks' = (tasks \ task) \cup
                     {[t EXCEPT !.status = status, !.position = position] : t \in task}
               /\ lastTM' = [op |-> "tasks.updateStatus", ok |-> TRUE,
                             taskId |-> taskId, caller |-> caller]
               /\ UNCHANGED <<users, projects, nextId>>

\* tasks.updateStatus called on its own
TasksUpdateStatus(caller, taskId, status, position) ==
    /\ updateStatus(caller, taskId, status, position)
    /\ UNCHANGED diVars

\* dueDate: null in the arguments of tasks.update
null == -2
taskPriorityValues == {"low", "medium", "high", "urgent"}

\* (mutant) any caller with a users row may touch the task
not_authorized_without_owner(user, task) == user.kind # "row"

\* !user || task.userId !== user._id
not_authorized(user, task) == user.kind # "row" \/ task.userId # user.id

\* (mutant) every field is written, supplied or not
patch_task_all(rows, id, title, description, priority, dueDate) ==
    {IF r.id # id THEN r
     ELSE [r EXCEPT !.title = title, !.description = description,
                    !.priority = priority,
                    !.dueDate = IF dueDate = null THEN undefined ELSE dueDate] :
      r \in rows}

\* ctx.db.patch(args.taskId, updates): updates holds the supplied fields,
\* and a null dueDate is stored as undefined
patch_task(rows, id, title, description, priority, dueDate) ==
    {IF r.id # id THEN r
     ELSE [r EXCEPT !.title = IF title = omitted THEN @ ELSE title,
                    !.description = IF description = omitted THEN @ ELSE description,
                    !.priority = IF priority = omitted THEN @ ELSE priority,
                    !.dueDate = IF dueDate = undefined THEN @
                                ELSE IF dueDate = null THEN undefined
                                ELSE dueDate] :
      r \in rows}

\* tasks.update
TasksUpdate(caller, taskId, title, description, priority, dueDate) ==
    /\ LET task == db_get(tasks, taskId)
       IN IF caller = NoAuth THEN ThrowError("tasks.update", "Not authenticated")
          ELSE IF task = {} THEN ThrowError("tasks.update", "Task not found")
          ELSE IF not_authorized(unique_user(users, caller), CHOOSE t \in task : TRUE)
               THEN ThrowError("tasks.update", "Not authorized")
          ELSE /\ tasks' = patch_task(tasks, taskId, title, description, priority, dueDate)
               /\ lastTM' = [op |-> "tasks.update", ok |-> TRUE, taskId |-> taskId,
                             title |-> title, description |-> description,
                             priority |-> priority, dueDate |-> dueDate]
               /\ UNCHANGED <<users, projects, nextId>>
    /\ UNCHANGED diVars

\* tasks.reorder
TasksReorder(caller, taskId, position) ==
    /\ LET task == db_get(tasks, taskId)
       IN IF caller = NoAuth THEN ThrowError("tasks.reorder", "Not authenticated")
          ELSE IF task = {} THEN ThrowError("tasks.reorder", "Task not found")
          ELSE IF not_authorized(unique_user(users, caller), CHOOSE t \in task : TRUE)
               THEN ThrowError("tasks.reorder", "Not authorized")
          ELSE /\ tasks' = (tasks \ task) \cup
                     {[t EXCEPT !.position = position] : t \in task}
               /\ lastTM' = [op |-> "tasks.reorder", ok |-> TRUE]
               /\ UNCHANGED <<users, projects, nextId>>
    /\ UNCHANGED diVars

\* tasks.remove
TasksRemove(caller, taskId) ==
    /\ LET task == db_get(tasks, taskId)
       IN IF caller = NoAuth THEN ThrowError("tasks.remove", "Not authenticated")
          ELSE IF task = {} THEN ThrowError("tasks.remove", "Task not found")
          ELSE IF not_authorized(unique_user(users, caller), CHOOSE t \in task : TRUE)
               THEN ThrowError("tasks.remove", "Not authorized")
          ELSE /\ tasks' = tasks \ task
               /\ lastTM' = [op |-> "tasks.remove", ok |-> TRUE]
               /\ UNCHANGED <<users, projects, nextId>>
    /\ UNCHANGED diVars

\* authKitEvent "user.updated" and auth.updateUser: the profile fields of the
\* row are patched; an unknown authId is logged and skipped
UserUpdated(authId, name) ==
    /\ LET user == unique_user(users, authId)
       IN IF user.kind = "error" THEN ThrowError("user.updated", "unique")
          ELSE IF user.kind = "null"
               THEN /\ lastTM' = [op |-> "user.updated", ok |-> TRUE]
                    /\ UNCHANGED <<users, projects, tasks, nextId>>
          ELSE /\ users' = {IF u.id = user.id THEN [u EXCEPT !.name = name] ELSE u :
                               u \in users}
               /\ lastTM' = [op |-> "user.updated", ok |-> TRUE]
               /\ UNCHANGED <<projects, tasks, nextId>>
    /\ UNCHANGED diVars

\* (mutant) the user's projects go and their tasks stay
tasks_after_delete_user_kept(projectsT, tasksT, userId) == tasksT

\* the tasks left by the loops of deleteUser: for each project of by_user,
\* every task of by_project is deleted
tasks_after_delete_user(projectsT, tasksT, userId) ==
    {t \in tasksT : \A p \in by_user(projectsT, userId) : t.projectId # p.id}

\* the projects left: every project of by_user is deleted
projects_after_delete_user(projectsT, userId) == projectsT \ by_user(projectsT, userId)

\* authKitEvent "user.deleted" (auth.deleteUser, the internal mutation, has
\* the same body): an unknown authId is logged and skipped
UserDeleted(authId) ==
    /\ LET user == unique_user(users, authId)
       IN IF user.kind = "error" THEN ThrowError("user.deleted", "unique")
          ELSE IF user.kind = "null"
               THEN /\ lastTM' = [op |-> "user.deleted", ok |-> TRUE, authId |-> authId,
                                  deleted |-> 0]
                    /\ UNCHANGED <<users, projects, tasks, nextId>>
          ELSE /\ tasks' = tasks_after_delete_user(projects, tasks, user.id)
               /\ projects' = projects_after_delete_user(projects, user.id)
               /\ users' = users \ db_get(users, user.id)
               /\ lastTM' = [op |-> "user.deleted", ok |-> TRUE, authId |-> authId,
                             deleted |-> Cardinality(by_user(projects, user.id))]
               /\ UNCHANGED nextId
    /\ UNCHANGED diVars

(* ---- components/tasks/KanbanBoard.tsx --------------------------------- *)

\* const columns = [{id: "todo"}, {id: "in_progress"}, {id: "done"}]
columns == <<"todo", "in_progress", "done">>

\* what a card can be dropped on: nothing, a column, or a card (the card of
\* a task that may have left the board since the drag began)
NoTarget == [kind |-> "none", status |-> "none", id |-> 0]
DropTargets ==
    {NoTarget}
    \cup {[kind |-> "column", status |-> columns[i], id |-> 0] : i \in 1..Len(columns)}
    \cup {[kind |-> "task", status |-> "none", id |-> t] : t \in TaskIds}

\* useQuery(api.tasks.listByProject, {projectId}): the board's tasks
board_tasks(caller, projectId) ==
    LET listed == tasks_listByProject(users, projects, tasks, caller, projectId)
    IN {listed.rows[i] : i \in 1..Len(listed.rows)}

\* the board is on screen while its query returns (a query that throws
\* takes the component down)
board_shown(caller, projectId) ==
    tasks_listByProject(users, projects, tasks, caller, projectId).ok

\* getTasksByStatus(status)
getTasksByStatus(boardTasks, status) == {t \in boardTasks : t.status = status}

\* (mutant) a drop on the card's own column is sent as well
handleDragEnd_same_column(boardTasks, taskId, over) ==
    IF over.kind = "none" THEN <<>>
    ELSE LET overTask == db_get(boardTasks, over.id)
         IN IF over.kind # "column" /\ overTask = {} THEN <<>>
            ELSE LET newStatus == IF over.kind = "column" THEN over.status
                                  ELSE (CHOOSE t \in overTask : TRUE).status
                     currentTask == db_get(boardTasks, taskId)
                 IN IF currentTask = {} THEN <<>>
                    ELSE <<[taskId |-> taskId, status |-> newStatus,
                            position |-> Cardinality(
                                getTasksByStatus(boardTasks, newStatus))]>>

\* handleDragEnd: the updateStatus calls one drop issues
handleDragEnd(boardTasks, taskId, over) ==
    IF over.kind = "none" THEN <<>>
    ELSE LET overTask == db_get(boardTasks, over.id)
         IN IF over.kind # "column" /\ overTask = {} THEN <<>>
            ELSE LET newStatus == IF over.kind = "column" THEN over.status
                                  ELSE (CHOOSE t \in overTask : TRUE).status
                     currentTask == db_get(boardTasks, taskId)
                 IN IF currentTask = {} \/ \E t \in currentTask : t.status = newStatus
                    THEN <<>>
                    ELSE <<[taskId |-> taskId, status |-> newStatus,
                            position |-> Cardinality(
                                getTasksByStatus(boardTasks, newStatus))]>>

\* handleDragStart: the card picked up becomes the active task
DragStart(caller, projectId, taskId) ==
    /\ last.op # "dragStart"
    /\ board_shown(caller, projectId)
    /\ db_get(board_tasks(caller, projectId), taskId) # {}
    /\ last' = [op |-> "dragStart", caller |-> caller, projectId |-> projectId,
                active |-> taskId, activeTask |-> taskId]
    /\ UNCHANGED <<now, nextDocId, documents, collections>>
    /\ UNCHANGED tmVars

\* handleDragEnd, the mutation it awaits included; an error of the mutation
\* is caught and logged
DragEnd(over) ==
    /\ last.op = "dragStart"
    /\ board_shown(last.caller, last.projectId)
    /\ LET boardTasks == board_tasks(last.caller, last.projectId)
           calls == handleDragEnd(boardTasks, last.active, over)
       IN /\ last' = [op |-> "dragEnd", activeTask |-> null, over |-> over,
                      found |-> db_get(boardTasks, last.active) # {},
                      calls |-> calls]
          /\ IF calls = <<>> THEN UNCHANGED tmVars
             ELSE updateStatus(last.caller, calls[1].taskId, calls[1].status,
                               calls[1].position)
    /\ UNCHANGED <<now, nextDocId, documents, collections>>

(* ========================= specifications ============================= *)

Init == InitDI /\ InitTM

UploadAny == \E valid \in BOOLEAN, text \in 0..MaxChunks : Upload(valid, text)
ProcessAny == \E d \in DocIds, apiOk \in BOOLEAN : ProcessDocument(d, apiOk)
AskAny == \E d \in DocIds, q \in Questions, storeOk \in BOOLEAN, llmOk \in BOOLEAN :
              Ask(d, q, storeOk, llmOk)
GetAny == \E d \in DocIds : Get(d)
RemoveAny == \E d \in DocIds : Remove(d)

\* the question-answering path (no step of it reads the clock)
Next == UploadAny \/ ProcessAny \/ AskAny \/ RemoveAny

Spec == Init /\ [][Next]_vars

\* the store under a running clock
NextStore == UploadAny \/ ProcessAny \/ GetAny \/ RemoveAny \/ Tick

SpecStore == Init /\ [][NextStore]_vars

UserCreatedAny == \E a \in AuthIds : UserCreated(a)
ProjectsCreateAny == \E c \in Callers : ProjectsCreate(c)
\* tasks created without a due date
TasksCreateAny == \E c \in Callers, p \in ProjectIds, st \in taskStatusValues :
                      TasksCreate(c, p, st, undefined)
ProjectsRemoveAny == \E c \in Callers, p \in ProjectIds : ProjectsRemove(c, p)

\* KanbanBoard.handleDragEnd: newPosition = tasksInColumn.length, the number
\* of tasks of the board's project in the target column (0 for a task that
\* is gone by the time the mutation runs)
newPosition(rows, id, status) ==
    IF db_get(rows, id) = {} THEN 0
    ELSE Cardinality(by_project_status(
             rows, (CHOOSE t \in db_get(rows, id) : TRUE).projectId, status))

\* tasks created with or without a due date
TasksCreateDueAny ==
    \E c \in Callers, p \in ProjectIds, st \in taskStatusValues, due \in DueDates :
        TasksCreate(c, p, st, due)

\* a card dropped on another column of the board
TasksUpdateStatusAny ==
    \E c \in Callers, id \in TaskIds, st \in taskStatusValues :
        /\ \A t \in db_get(tasks, id) : t.status # st
        /\ TasksUpdateStatus(c, id, st, newPosition(tasks, id, st))

NextTM == UserCreatedAny \/ ProjectsCreateAny \/ TasksCreateAny \/ ProjectsRemoveAny

SpecTM == Init /\ [][NextTM]_vars

ProjectsUpdateAny ==
    \E c \in Callers, p \in ProjectIds,
       name \in {omitted, "renamed"}, st \in {omitted, "active", "archived"} :
        ProjectsUpdate(c, p, name, st)

\* projects and their tasks under creation, renaming, archiving and restoring
RoomForRow == Cardinality(users) + Cardinality(projects) + Cardinality(tasks) < MaxRows

NextProjects ==
    \/ RoomForRow /\ UserCreatedAny
    \/ RoomForRow /\ ProjectsCreateAny
    \/ RoomForRow /\ TasksCreateAny
    \/ ProjectsUpdateAny

SpecProjects == Init /\ [][NextProjects]_vars

\* every public mutation and every WorkOS user event, on a few rows
RoomForNewRow ==
    (nextId.users - 1) + (nextId.projects - 1) + (nextId.tasks - 1) < MaxRows
TasksCreateTodoAny == \E c \in Callers, p \in ProjectIds : TasksCreate(c, p, "todo", undefined)
\* the edit dialog's mutation with the due date cleared
TasksUpdateAny ==
    \E c \in Callers, id \in TaskIds : TasksUpdate(c, id, omitted, omitted, omitted, null)
\* a card dropped on the Done column of the board
TasksDropOnDoneAny ==
    \E c \in Callers, id \in TaskIds :
        /\ \A t \in db_get(tasks, id) : t.status # "done"
        /\ TasksUpdateStatus(c, id, "done", newPosition(tasks, id, "done"))
\* the list view's status menu, "To Do": the task keeps the position it had
\* (0 stands for the position of a task that is gone when the mutation runs)
TasksStatusMenuAny ==
    \E c \in Callers, id \in TaskIds :
        \/ \E t \in db_get(tasks, id) : TasksUpdateStatus(c, id, "todo", t.position)
        \/ db_get(tasks, id) = {} /\ TasksUpdateStatus(c, id, "todo", 0)
TasksReorderAny == \E c \in Callers, id \in TaskIds : TasksReorder(c, id, 0)
TasksRemoveAny == \E c \in Callers, id \in TaskIds : TasksRemove(c, id)
ProjectsArchiveAny == \E c \in Callers, p \in ProjectIds : ProjectsUpdate(c, p, omitted, "archived")
UserUpdatedAny == \E a \in AuthIds : UserUpdated(a, "renamed")
UserDeletedAny == \E a \in AuthIds : UserDeleted(a)

NextAll ==
    \/ RoomForNewRow /\ UserCreatedAny
    \/ RoomForNewRow /\ ProjectsCreateAny
    \/ RoomForNewRow /\ TasksCreateTodoAny
    \/ UserUpdatedAny
    \/ UserDeletedAny
    \/ ProjectsArchiveAny
    \/ ProjectsRemoveAny
    \/ TasksUpdateAny
    \/ TasksDropOnDoneAny
    \/ TasksStatusMenuAny
    \/ TasksReorderAny
    \/ TasksRemoveAny

SpecAll == Init /\ [][NextAll]_vars

\* the mutations a signed-in client can call, on a few rows
NextMutations ==
    \/ RoomForNewRow /\ UserCreatedAny
    \/ RoomForNewRow /\ ProjectsCreateAny
    \/ RoomForNewRow /\ TasksCreateTodoAny
    \/ ProjectsArchiveAny
    \/ ProjectsRemoveAny
    \/ TasksUpdateAny
    \/ TasksDropOnDoneAny
    \/ TasksStatusMenuAny
    \/ TasksReorderAny
    \/ TasksRemoveAny

SpecMutations == Init /\ [][NextMutations]_vars

\* a board in front of the tables, which other sessions go on changing
DragStartAny == \E c \in AuthIds, p \in ProjectIds, t \in TaskIds : DragStart(c, p, t)
DragEndAny == \E over \in DropTargets : DragEnd(over)

NextBoard ==
    \/ RoomForNewRow /\ UserCreatedAny
    \/ RoomForNewRow /\ ProjectsCreateAny
    \/ RoomForNewRow /\ TasksCreateTodoAny
    \/ TasksRemoveAny
    \/ DragStartAny
    \/ DragEndAny

SpecBoard == Init /\ [][NextBoard]_vars

\* the arguments of tasks.update tried: each field alone, the due date
\* cleared, and what the edit dialog sends (title and priority always, the
\* description when it is not blank, the due date or null)
EditArgs ==
    {<<"edited", omitted, omitted, undefined>>,
     <<omitted, "described", omitted, undefined>>,
     <<omitted, omitted, "high", undefined>>,
     <<omitted, omitted, omitted, 1>>,
     <<omitted, omitted, omitted, null>>,
     <<"edited", "described", "high", 1>>,
     <<"edited", omitted, "high", null>>}

TasksEditAny ==
    \E c \in Callers, id \in TaskIds, args \in EditArgs :
        TasksUpdate(c, id, args[1], args[2], args[3], args[4])

NextEdit ==
    \/ RoomForNewRow /\ UserCreatedAny
    \/ RoomForNewRow /\ ProjectsCreateAny
    \/ RoomForNewRow /\ TasksCreateTodoAny
    \/ TasksEditAny

SpecEdit == Init /\ [][NextEdit]_vars

InitText == InitChunker /\ InitTM

SpecChunker == InitText /\ [][ChunkText]_vars

\* the data the dashboard reads: users, projects, dated tasks, status changes
NextDash == UserCreatedAny \/ ProjectsCreateAny \/ TasksCreateDueAny \/ TasksUpdateStatusAny

SpecDash == Init /\ [][NextDash]_vars

(* ============================== claims ================================ *)

\* C1: a get issued after the document's expires_at reports not-found,
\* whether or not a sweep ran in between.
C1_ExpiredGetIsNotFound ==
    (last.op = "get" /\ last.expired) => last.status = "not_found"

\* C2: the "cannot find this information" outcome is reached only for a
\* document without chunks; with chunks and an empty vector retrieval the
\* answer is grounded on lexical matches instead.
C2_NoContextOnlyWithoutChunks ==
    (last.op = "ask" /\ last.known /\ last.response.kind = "no_context")
        => last.nchunks = 0

C4_RetrievalScoped ==
    /\ last.op = "ask" =>
           \A i \in 1..Len(last.retrieved) :
               /\ last.retrieved[i].doc_id = last.doc_id
               /\ last.known
               /\ last.retrieved[i].chunk_index < last.nchunks
    /\ \A e \in collections : e.doc_id \in DOMAIN documents

C4_Witness ==
    /\ last.op = "ask"
    /\ Len(last.retrieved) > 0
    /\ \E other \in DOMAIN documents :
           /\ other # last.doc_id
           /\ collection_of(collections, other) # {}

\* C5: projects.remove by the owner deletes the project and every task of it;
\* afterwards no task refers to the project and the tasks of other projects
\* are the ones that were there before.
C5_RemoveCascades ==
    (lastTM.op = "projects.remove" /\ lastTM.ok) =>
        /\ db_get(projects, lastTM.projectId) = {}
        /\ by_project(tasks, lastTM.projectId) = {}
        /\ tasks = lastTM.kept

C5_Witness ==
    /\ lastTM.op = "projects.remove"
    /\ lastTM.ok
    /\ lastTM.removed # {}
    /\ lastTM.kept # {}

\* C6: a question on an id the store does not hold (never ingested, or
\* removed) gets the NotFound status, never a "cannot find" turn.
C6_UnknownIdIsNotFound ==
    (last.op = "ask" /\ ~last.known) => last.status = "not_found"

C10_HistoryWithinWindow ==
    \A d \in DOMAIN documents :
        Len(documents[d].qa_history) <= max_conversation_history

C13_RecentTasksByUpdate ==
    /\ \A c \in AuthIds, limit \in {undefined, 1, 2} :
           LET r == getRecentTasks(users, tasks, c, limit)
           IN r.ok =>
                  /\ Len(r.rows) <= (IF limit = undefined THEN 5 ELSE limit)
                  /\ \A i \in 1..Len(r.rows) :
                         \E u \in users : u.authId = c /\ u.id = r.rows[i].userId
    /\ (lastTM.op = "tasks.updateStatus" /\ lastTM.ok) =>
           LET r == getRecentTasks(users, tasks, lastTM.caller, 1)
           IN r.ok => (Len(r.rows) = 1 /\ r.rows[1].id = lastTM.taskId)

\* C14: at every instant, getOverdueTasks returns exactly the caller's tasks
\* with a due date before that instant and a status other than done, in
\* ascending order of due date; getDueToday returns exactly the caller's
\* tasks due within the day of that instant and not done; a task moved to done
\* is in neither list.
C14_OverdueAndDueTodayAreExact ==
    \A c \in AuthIds, t \in Instants :
        LET tasks_of_caller(a) ==
                {x \in tasks : \E u \in users : u.authId = a /\ u.id = x.userId}
            overdue == getOverdueTasks(users, tasks, c, t)
            today == getDueToday(users, tasks, c, t)
            rows(r) == {r.rows[i] : i \in 1..Len(r.rows)}
        IN /\ overdue.ok =>
                 /\ rows(overdue) =
                        {x \in tasks_of_caller(c) :
                             /\ x.dueDate # undefined
                             /\ x.dueDate < t
                             /\ x.status # "done"}
                 /\ Len(overdue.rows) = Cardinality(rows(overdue))
                 /\ \A i, j \in 1..Len(overdue.rows) :
                        i < j => overdue.rows[i].dueDate <= overdue.rows[j].dueDate
           /\ today.ok =>
                 /\ rows(today) =
                        {x \in tasks_of_caller(c) :
                             /\ x.dueDate # undefined
                             /\ x.dueDate >= startOfDay(t)
                             /\ x.dueDate < startOfDay(t) + DayLength
                             /\ x.status # "done"}
                 /\ Len(today.rows) = Cardinality(rows(today))
           /\ (lastTM.op = "tasks.updateStatus" /\ lastTM.ok) =>
                 \A x \in db_get(tasks, lastTM.taskId) :
                     x.status = "done" =>
                         /\ overdue.ok => x \notin rows(overdue)
                         /\ today.ok => x \notin rows(today)

\* C15: archiving a project (projects.update with status "archived" and no
\* other field) is a soft delete: apart from the status the row is what it
\* was, every task is what it was, the owner's list of active projects no
\* longer holds the project, and the owner's list of archived projects and
\* getById still return it.
C15_ArchiveIsSoftDelete ==
    (/\ lastTM.op = "projects.update" /\ lastTM.ok
     /\ lastTM.status = "archived" /\ lastTM.name = omitted) =>
        LET id == lastTM.projectId
            ids(r) == {r.rows[i].project.id : i \in 1..Len(r.rows)}
            active == projects_list(users, projects, tasks, lastTM.caller, "active")
            archived == projects_list(users, projects, tasks, lastTM.caller, "archived")
            byId == projects_getById(users, projects, tasks, lastTM.caller, id)
        IN /\ db_get(projects, id) = {[lastTM.before EXCEPT !.status = "archived"]}
           /\ tasks = lastTM.tasksBefore
           /\ active.ok /\ id \notin ids(active)
           /\ archived.ok /\ id \in ids(archived)
           /\ byId.ok /\ ids(byId) = {id}
           /\ \A i \in 1..Len(byId.rows) :
                  byId.rows[i].taskCount = Cardinality(by_project(lastTM.tasksBefore, id))

C15_Witness ==
    /\ lastTM.op = "projects.update" /\ lastTM.ok
    /\ lastTM.status = "archived" /\ lastTM.name = omitted
    /\ lastTM.before.status = "active"
    /\ lastTM.before.name = "renamed"
    /\ by_project(tasks, lastTM.projectId) # {}

C17_EmbedsInBoundedBatches ==
    \A d \in DOMAIN documents :
        documents[d].status = "completed" =>
            LET texts == documents[d].chunks
                requests == embed_requests(texts)
            IN /\ \A apiOk \in BOOLEAN :
                      /\ Len(embed_batch(texts, apiOk)) = Len(texts)
                      /\ \A i \in 1..Len(texts) :
                             embed_batch(texts, apiOk)[i].chunk_index = texts[i]
               /\ Cardinality(collection_of(collections, d)) = Len(texts)
               /\ concat(requests) = texts
               /\ \A r \in 1..Len(requests) : Len(requests[r]) <= max_batch_size

C21_DocumentsWithinSessionMaximum ==
    Cardinality(DOMAIN documents) <= max_documents_per_session

\* C22: a query hands a caller only the caller's own records: tasks and
\* projects whose userId is the caller's users row, the caller's own users
\* row, and nothing at all to a request without a session.
C22_QueriesReturnOwnRecordsOnly ==
    \A c \in Callers :
        LET own(r) == \E u \in users : u.authId = c /\ u.id = r.userId
            only_own(result) ==
                \A i \in 1..Len(result.rows) : c # NoAuth /\ own(result.rows[i])
        IN /\ \A p \in ProjectIds :
                  /\ only_own(tasks_listByProject(users, projects, tasks, c, p))
                  /\ \A st \in taskStatusValues :
                         only_own(tasks_listByStatus(users, tasks, c, p, st))
                  /\ LET got == projects_getById(users, projects, tasks, c, p)
                     IN \A i \in 1..Len(got.rows) :
                            c # NoAuth /\ own(got.rows[i].project)
           /\ \A t \in TaskIds : only_own(tasks_getById(users, tasks, c, t))
           /\ LET got == projects_list(users, projects, tasks, c, omitted)
              IN \A i \in 1..Len(got.rows) : c # NoAuth /\ own(got.rows[i].project)
           /\ only_own(getRecentTasks(users, tasks, c, undefined))
           /\ \A u \in 1..MaxUsers :
                  LET got == users_getById(users, c, u)
                  IN \A i \in 1..Len(got.rows) : got.rows[i].authId = c

\* C23: a task or project mutation called without a session, by a caller
\* without a users row, on a task or project that does not exist, or on one
\* owned by another user, raises an error and leaves every user, project
\* and task as it was: a call that raises changes no table, and no call
\* that completes is one of those calls.
C23_RejectedMutationChangesNothing ==
    [][LET no_row(c) == \A u \in users : u.authId # c
           foreign(c, rows, id) ==
               \/ db_get(rows, id) = {}
               \/ \E r \in db_get(rows, id) : \A u \in users :
                      u.authId = c => u.id # r.userId
           bad(c, rows, id) == c = NoAuth \/ no_row(c) \/ foreign(c, rows, id)
           ran(op) == lastTM'.ok /\ lastTM'.op = op
       IN /\ ~lastTM'.ok => UNCHANGED <<users, projects, tasks>>
          /\ ran("tasks.update") =>
                 ~\E c \in Callers, id \in TaskIds :
                     bad(c, tasks, id) /\ TasksUpdate(c, id, omitted, omitted, omitted, null)
          /\ ran("tasks.reorder") =>
                 ~\E c \in Callers, id \in TaskIds :
                     bad(c, tasks, id) /\ TasksReorder(c, id, 0)
          /\ ran("tasks.remove") =>
                 ~\E c \in Callers, id \in TaskIds :
                     bad(c, tasks, id) /\ TasksRemove(c, id)
          /\ ran("tasks.updateStatus") =>
                 ~\E c \in Callers, id \in TaskIds,
                     st \in taskStatusValues, pos \in 0..MaxTasks :
                     bad(c, tasks, id) /\ TasksUpdateStatus(c, id, st, pos)
          /\ ran("tasks.create") =>
                 ~\E c \in Callers, p \in ProjectIds :
                     bad(c, projects, p) /\ TasksCreate(c, p, "todo", undefined)
          /\ ran("projects.update") =>
                 ~\E c \in Callers, p \in ProjectIds :
                     bad(c, projects, p) /\ ProjectsUpdate(c, p, omitted, "archived")
          /\ ran("projects.remove") =>
                 ~\E c \in Callers, p \in ProjectIds :
                     bad(c, projects, p) /\ ProjectsRemove(c, p)]_vars

\* a signed-in user with a users row has just been refused another user's task
C23_Witness ==
    /\ lastTM.op = "tasks.remove"
    /\ ~lastTM.ok
    /\ lastTM.error = "Not authorized"
    /\ \E t \in tasks, u \in users : u.id # t.userId /\ u.authId # "alice"
    /\ \E t \in tasks, u \in users : u.id = t.userId /\ u.authId = "alice"

\* C24: no two tasks of one project and one status have the same position,
\* whatever the clients have created, removed and moved.
C24_PositionsDistinctInColumn ==
    \A t1, t2 \in tasks :
        (t1.projectId = t2.projectId /\ t1.status = t2.status /\ t1.id # t2.id)
            => t1.position # t2.position

\* C25: every task belongs to an existing project that has the task's
\* userId, and every project belongs to an existing users row.
C25_ReferencesResolve ==
    /\ \A t \in tasks : \E p \in projects : p.id = t.projectId /\ p.userId = t.userId
    /\ \A p \in projects : \E u \in users : u.id = p.userId

\* a user with a project and a task in it has just been deleted
C25_Witness ==
    /\ lastTM.op = "user.deleted"
    /\ lastTM.ok
    /\ lastTM.deleted > 0
    /\ nextId.tasks > 1
    /\ nextId.tasks - 1 > Cardinality(tasks)
    /\ users # {}

\* C26: the users table never holds two rows with one authId.
C26_OneRowPerAuthId ==
    \A u1, u2 \in users : u1.authId = u2.authId => u1.id = u2.id

\* C30: a user.deleted event for an authId that has a users row leaves no
\* users row with that authId, no project and no task of that user, and
\* every other user's rows as they were; for an authId without a row it
\* changes nothing.
C30_UserDeletedCascades ==
    [][\A a \in AuthIds :
          UserDeleted(a) =>
              LET rows == {u \in users : u.authId = a}
                  theirs(r) == \E u \in rows : u.id = r.userId
              IN IF rows = {} THEN UNCHANGED <<users, projects, tasks>>
                 ELSE /\ users' = users \ rows
                      /\ projects' = {p \in projects : ~theirs(p)}
                      /\ tasks' = {t \in tasks : ~theirs(t)}]_vars

C29_UpdateTouchesSuppliedFieldsOnly ==
    [][(lastTM'.op = "tasks.update" /\ lastTM'.ok) =>
          LET args == lastTM'
              before == CHOOSE t \in tasks : t.id = args.taskId
              after == CHOOSE t \in tasks' : t.id = args.taskId
          IN /\ \E t \in tasks : t.id = args.taskId
             /\ \E t \in tasks' : t.id = args.taskId
             /\ after.title = IF args.title = omitted THEN before.title ELSE args.title
             /\ after.description = IF args.description = omitted THEN before.description
                                    ELSE args.description
             /\ after.priority = IF args.priority = omitted THEN before.priority
                                 ELSE args.priority
             /\ after.dueDate = IF args.dueDate = undefined THEN before.dueDate
                                ELSE IF args.dueDate = null THEN undefined
                                ELSE args.dueDate
             /\ after.status = before.status
             /\ after.position = before.position
             /\ after.projectId = before.projectId
             /\ after.userId = before.userId
             /\ tasks' \ {after} = tasks \ {before}
             /\ UNCHANGED <<projects, users>>]_vars

\* the dialog has just cleared the due date of a task and renamed it, its
\* description staying as an earlier update left it, next to a dated task
C29_Witness ==
    /\ lastTM.op = "tasks.update"
    /\ lastTM.ok
    /\ lastTM.title = "edited" /\ lastTM.description = omitted
    /\ lastTM.dueDate = null
    /\ \E t \in tasks : /\ t.id = lastTM.taskId
                         /\ t.title = "edited"
                         /\ t.description = "described"
                         /\ t.dueDate = undefined
    /\ \E t \in tasks : t.id # lastTM.taskId /\ t.dueDate = 1

====
